---- MODULE Spec2Model ----
(***************************************************************************)
(* ProSets backend: payment settlement (PaymentsService, StripeService)    *)
(* and secure download issuance (DownloadsController, DownloadsService).   *)
(*                                                                         *)
(* Every request is a process in a slot of `reqs`; each awaited database   *)
(* or SDK call of a handler is one step of that process, so that handlers  *)
(* of different slots interleave exactly at the awaits of the source.      *)
(* Money is counted in cents (the ledger's Decimal(.., 2) scaled by 100).  *)
(***************************************************************************)
EXTENDS Integers, Sequences, FiniteSets, TLC

(* ---------------------------- bounds ----------------------------------- *)
NProcs == 2          \* request slots (concurrency level k)
MaxOrders == 2       \* Order rows ever created
MaxPayments == 2     \* Payment rows ever created
MaxDownloads == 7    \* Download rows ever created (rate-limit specifications)
MaxSysDownloads == 6 \* Download rows ever created (whole-system specifications)
MaxTicks == 3        \* clock advances (requests one after another)
MaxConcTicks == 1    \* clock advances (concurrent requests)

(* ------------------------ program constants ---------------------------- *)
MAX_DOWNLOADS_PER_HOUR == 5
DEFAULT_EXPIRATION == 300
MAX_EXPIRATION == 3600
MIN_EXPIRATION == 60
RATE_WINDOW == 60 * 60

(* ------------------------------ inputs --------------------------------- *)
Procs == 1..NProcs
Auth0Ids == {"buyer", "vendor", "ghost"}
AssetIds == {"a1", "a2"}
Prices == {2999, 4999}
FailedAmounts == {1000}
ExpInputs == {0, 59, 60, 3600, 3601}
EventTypes == {"checkout.session.completed", "payment_intent.succeeded",
               "payment_intent.payment_failed", "customer.created"}
Signatures == {"valid", "invalid", "missing"}
TickSteps == {1, RATE_WINDOW - 1, RATE_WINDOW + 1}

\* The accounts of the user directory: "admin" and "buyer" have a User,
\* "ghost" has none at first.  A User's id is its auth0Id.
AccountIds == {"admin", "buyer", "ghost"}

UserRoles == {"CLIENT", "VENDEUR", "ADMIN"}

Emails == {"e1", "e2"}

Names == {"n1"}

\* A claim the token does not carry (JavaScript undefined) and a column
\* the row leaves empty (SQL NULL).
Undefined == "undefined"

Null == "null"

\* The profiles JwtStrategy.validate can hand to findOrCreateUser, and the
\* ones a direct caller can: any field may be missing.
Profiles == [auth0Id : AccountIds \cup {Undefined},
             email : Emails \cup {Undefined},
             name : Names \cup {Undefined}]

VARIABLES users, assets, assetDownloads, orders, payments, downloads, now,
          ticks, webhookSecret, reqs

vars == <<users, assets, assetDownloads, orders, payments, downloads, now,
          ticks, webhookSecret, reqs>>

(* ----------------------------- records --------------------------------- *)
NoAsset == [exists |-> FALSE, vendorId |-> "none", status |-> "none",
            deleted |-> FALSE, price |-> 0]

NoOrder == [id |-> 0, userId |-> "none", assetId |-> "none", totalAmount |-> 0,
            status |-> "none", stripeSessionId |-> 0]

NoEvent == [type |-> "none", hasMeta |-> FALSE, orderId |-> 0, amount |-> 0]

NoBody == [hasAssetId |-> FALSE, hasExp |-> FALSE, exp |-> 0]

NoResp == [status |-> "none", msg |-> "none"]

Resp(s, m) == [status |-> s, msg |-> m]

Received == Resp("OK", "received")

NoProfile == [auth0Id |-> "none", email |-> "none", name |-> "none"]

NoUser == [role |-> "none", email |-> "none", name |-> "none"]

IdleReq == [kind |-> "idle", pc |-> "idle", auth0Id |-> "none",
            assetId |-> "none", body |-> NoBody, ev |-> NoEvent,
            sig |-> "none", verified |-> FALSE, called |-> FALSE,
            asset |-> NoAsset, order |-> NoOrder, at |-> 0,
            expiration |-> 0, resp |-> NoResp,
            profile |-> NoProfile, targetUserId |-> "none",
            newRole |-> "none", user |-> NoUser]

InFlight(p) == reqs[p].kind # "idle" /\ reqs[p].pc # "done"

NoneInFlight == \A q \in Procs : ~InFlight(q)

Done(r, response) == [r EXCEPT !.pc = "done", !.resp = response]

IsDoneWebhook(p) == reqs[p].kind = "webhook" /\ reqs[p].pc = "done"

(* ------------------------------ ledger --------------------------------- *)
OrderIds == 1..Len(orders)

\* prisma.user.findUnique({ where: { auth0Id } })
UserExists(a) == a \in DOMAIN users

\* A status update that also rewrites the amount from the asset's price.
SetStatusRepriced(os, id, st) ==
    [os EXCEPT ![id].status = st,
               ![id].totalAmount = assets[os[id].assetId].price]

\* prisma.order.update({ where: { id }, data: { status } })
SetStatus(os, id, st) == [os EXCEPT ![id].status = st]

\* The Payment table as the ledger schema declares it: Order -> Payment is
\* one-to-many and no unique key spans a Payment row, so an insert of a
\* well-formed row referencing an existing Order is always accepted.
PaymentInsertAllowed(ps, row) == TRUE

PaymentRow(oid, amt, st) == [orderId |-> oid, amount |-> amt, status |-> st]

\* prisma.payment.create({ data })
PaymentCreate(ps, row) == IF PaymentInsertAllowed(ps, row) THEN Append(ps, row) ELSE ps

PaymentsOf(oid, st) == {i \in 1..Len(payments) :
                          payments[i].orderId = oid /\ payments[i].status = st}

(* ------------------------------- Init ---------------------------------- *)
\* The price asset a1 is listed at.
InitialPrice == CHOOSE x \in Prices : \A y \in Prices : x <= y

Init ==
    /\ users = [a \in {"buyer", "vendor"} |->
                  [role |-> IF a = "vendor" THEN "VENDEUR" ELSE "CLIENT"]]
    /\ assets = [a \in AssetIds |->
                  IF a = "a1"
                  THEN [exists |-> TRUE, vendorId |-> "vendor", status |-> "ACTIVE",
                        deleted |-> FALSE, price |-> InitialPrice]
                  ELSE NoAsset]
    /\ orders = <<>>
    /\ payments = <<>>
    /\ assetDownloads = [a \in AssetIds |-> 0]
    /\ downloads = <<>>
    /\ now = 0
    /\ ticks = 0
    /\ webhookSecret \in BOOLEAN
    /\ reqs = [p \in Procs |-> IdleReq]

(* ======================= payment webhook =============================== *)

\* StripeService.constructWebhookEvent: TRUE when an event is returned,
\* FALSE when BadRequest('Invalid webhook signature') is thrown.
constructWebhookEvent(secretConfigured, sig) ==
    IF ~secretConfigured THEN TRUE ELSE sig = "valid"

\* The synchronous prefix of PaymentsController.handleWebhook,
\* PaymentsService.handleWebhook and the dispatched handler, up to the
\* first awaited ledger call.
WebhookDispatch(r) ==
    IF r.sig = "missing"
    THEN Done(r, Resp("InternalError", "Missing webhook signature or body"))
    ELSE IF ~constructWebhookEvent(webhookSecret, r.sig)
    THEN Done(r, Resp("BadRequest", "Invalid webhook signature"))
    ELSE LET v == [r EXCEPT !.verified = (webhookSecret /\ r.sig = "valid")] IN
         CASE r.ev.type = "checkout.session.completed" ->
                IF ~r.ev.hasMeta
                THEN Done(v, Resp("InternalError", "Internal server error"))
                ELSE IF r.ev.orderId = 0 THEN Done(v, Received)
                ELSE [v EXCEPT !.pc = "cc_find"]
           [] r.ev.type = "payment_intent.payment_failed" ->
                IF ~r.ev.hasMeta \/ r.ev.orderId = 0 THEN Done(v, Received)
                ELSE [v EXCEPT !.pc = "pf_update"]
           [] OTHER -> Done(v, Received)

WebhookInputs ==
    {e \in [type : EventTypes, hasMeta : BOOLEAN, orderId : 0..MaxOrders,
            amount : FailedAmounts \cup {0}] :
        /\ (~e.hasMeta => e.orderId = 0)
        /\ (e.amount # 0 <=> e.type = "payment_intent.payment_failed")}

\* Writes a webhook handler started now may still add to the Payment table.
PendingPaymentWrites ==
    Cardinality({q \in Procs : reqs[q].kind = "webhook" /\ InFlight(q)})

\* POST /payments/webhook arrives.
WebhookStartWith(p, events) ==
    /\ ~InFlight(p)
    /\ Len(payments) + PendingPaymentWrites < MaxPayments
    /\ \E e \in events, s \in Signatures :
          reqs' = [reqs EXCEPT ![p] =
                     WebhookDispatch([IdleReq EXCEPT !.kind = "webhook",
                                        !.pc = "start", !.ev = e, !.sig = s])]
    /\ UNCHANGED <<users, assets, assetDownloads, orders, payments, downloads,
                   now, ticks, webhookSecret>>

\* The idempotency gate left out.
AlreadyPaidNever(o) == FALSE

\* handleCheckoutComplete step 2: if (order.status === 'PAID') return.
AlreadyPaid(o) == o.status = "PAID"

\* handleCheckoutComplete: prisma.order.findUnique and the idempotency gate.
CheckoutCompleteFind(p) ==
    /\ reqs[p].kind = "webhook" /\ reqs[p].pc = "cc_find"
    /\ LET id == reqs[p].ev.orderId IN
         reqs' = [reqs EXCEPT ![p] =
            IF id \notin OrderIds THEN Done(@, Received)
            ELSE IF AlreadyPaid(orders[id]) THEN Done(@, Received)
            ELSE [@ EXCEPT !.pc = "cc_update", !.order = orders[id]]]
    /\ UNCHANGED <<users, assets, assetDownloads, orders, payments, downloads,
                   now, ticks, webhookSecret>>

\* handleCheckoutComplete: prisma.order.update to PAID.
CheckoutCompleteUpdate(p) ==
    /\ reqs[p].kind = "webhook" /\ reqs[p].pc = "cc_update"
    /\ orders' = SetStatus(orders, reqs[p].order.id, "PAID")
    /\ reqs' = [reqs EXCEPT ![p].pc = "cc_insert"]
    /\ UNCHANGED <<users, assets, assetDownloads, payments, downloads, now,
                   ticks, webhookSecret>>

\* The amount taken from the asset's current price.
SucceededAmountListPrice(o) == assets[o.assetId].price

\* handleCheckoutComplete: amount: order.totalAmount, of the order as read.
SucceededAmount(o) == o.totalAmount

\* handleCheckoutComplete: prisma.payment.create with the order's amount.
CheckoutCompleteInsert(p) ==
    /\ reqs[p].kind = "webhook" /\ reqs[p].pc = "cc_insert"
    /\ payments' = PaymentCreate(payments,
                      PaymentRow(reqs[p].order.id, SucceededAmount(reqs[p].order),
                                 "SUCCEEDED"))
    /\ reqs' = [reqs EXCEPT ![p] = Done(@, Received)]
    /\ UNCHANGED <<users, assets, assetDownloads, orders, downloads, now,
                   ticks, webhookSecret>>

\* handlePaymentFailed: prisma.order.update to FAILED; an unknown id makes
\* the update throw, which the handler's catch logs and swallows.
PaymentFailedUpdate(p) ==
    /\ reqs[p].kind = "webhook" /\ reqs[p].pc = "pf_update"
    /\ LET id == reqs[p].ev.orderId IN
         IF id \notin OrderIds
         THEN /\ reqs' = [reqs EXCEPT ![p] = Done(@, Received)]
              /\ UNCHANGED orders
         ELSE /\ orders' = SetStatus(orders, id, "FAILED")
              /\ reqs' = [reqs EXCEPT ![p].pc = "pf_insert"]
    /\ UNCHANGED <<users, assets, assetDownloads, payments, downloads, now,
                   ticks, webhookSecret>>

\* The FAILED row carrying the amount of the Order instead.
FailedPaymentRowOrderAmount(r) ==
    PaymentRow(r.ev.orderId, orders[r.ev.orderId].totalAmount, "FAILED")

\* handlePaymentFailed: amount: paymentIntent.amount / 100.  The processor
\* reports cents and the ledger holds currency units with two decimals,
\* which this model counts in cents.
FailedPaymentRow(r) == PaymentRow(r.ev.orderId, r.ev.amount, "FAILED")

\* handlePaymentFailed: prisma.payment.create with the processor's amount.
PaymentFailedInsert(p) ==
    /\ reqs[p].kind = "webhook" /\ reqs[p].pc = "pf_insert"
    /\ payments' = PaymentCreate(payments, FailedPaymentRow(reqs[p]))
    /\ reqs' = [reqs EXCEPT ![p] = Done(@, Received)]
    /\ UNCHANGED <<users, assets, assetDownloads, orders, downloads, now,
                   ticks, webhookSecret>>

WebhookStart(p) == WebhookStartWith(p, WebhookInputs)

CompletedEvents == {e \in WebhookInputs : e.type = "checkout.session.completed"}

\* Deliveries of 'checkout.session.completed' events only.
CompletedStart(p) == WebhookStartWith(p, CompletedEvents)

WebhookStep(p) ==
    \/ CheckoutCompleteFind(p)
    \/ CheckoutCompleteUpdate(p)
    \/ CheckoutCompleteInsert(p)
    \/ PaymentFailedUpdate(p)
    \/ PaymentFailedInsert(p)

(* ========================== checkout =================================== *)

\* POST /payments/create-checkout arrives (CreateCheckoutDto carries a
\* well-formed asset id).
CheckoutStart(p) ==
    /\ ~InFlight(p)
    /\ Len(orders) + Cardinality({q \in Procs : reqs[q].kind = "checkout"
                                                 /\ InFlight(q)}) < MaxOrders
    /\ \E a \in Auth0Ids, s \in AssetIds :
          reqs' = [reqs EXCEPT ![p] = [IdleReq EXCEPT !.kind = "checkout",
                      !.pc = "k_user", !.auth0Id = a, !.assetId = s,
                      !.called = TRUE]]
    /\ UNCHANGED <<users, assets, assetDownloads, orders, payments, downloads,
                   now, ticks, webhookSecret>>

\* createCheckoutSession step 1: prisma.user.findUnique.
CheckoutUser(p) ==
    /\ reqs[p].kind = "checkout" /\ reqs[p].pc = "k_user"
    /\ reqs' = [reqs EXCEPT ![p] =
          IF ~UserExists(@.auth0Id) THEN Done(@, Resp("NotFound", "User not found"))
          ELSE [@ EXCEPT !.pc = "k_asset"]]
    /\ UNCHANGED <<users, assets, assetDownloads, orders, payments, downloads,
                   now, ticks, webhookSecret>>

\* The checks on the asset without the self-purchase check.
CheckoutAssetChecksNoVendor(r, a) ==
    IF ~a.exists THEN Done(r, Resp("NotFound", "Asset not found"))
    ELSE IF a.status # "ACTIVE"
    THEN Done([r EXCEPT !.asset = a],
              Resp("BadRequest", "Asset is not available for purchase"))
    ELSE IF a.deleted
    THEN Done([r EXCEPT !.asset = a], Resp("BadRequest", "Asset has been deleted"))
    ELSE [r EXCEPT !.asset = a, !.pc = "k_paid"]

\* createCheckoutSession steps 2-3: prisma.asset.findUnique and the checks
\* on the asset that was read.
CheckoutAssetChecks(r, a) ==
    IF ~a.exists THEN Done(r, Resp("NotFound", "Asset not found"))
    ELSE IF a.status # "ACTIVE"
    THEN Done([r EXCEPT !.asset = a],
              Resp("BadRequest", "Asset is not available for purchase"))
    ELSE IF a.deleted
    THEN Done([r EXCEPT !.asset = a], Resp("BadRequest", "Asset has been deleted"))
    ELSE IF a.vendorId = r.auth0Id
    THEN Done([r EXCEPT !.asset = a],
              Resp("BadRequest", "You cannot purchase your own asset"))
    ELSE [r EXCEPT !.asset = a, !.pc = "k_paid"]

CheckoutAsset(p) ==
    /\ reqs[p].kind = "checkout" /\ reqs[p].pc = "k_asset"
    /\ reqs' = [reqs EXCEPT ![p] = CheckoutAssetChecks(@, assets[@.assetId])]
    /\ UNCHANGED <<users, assets, assetDownloads, orders, payments, downloads,
                   now, ticks, webhookSecret>>

\* prisma.order.findFirst({ where: { userId, assetId, status } })
HasOrder(u, a, st) ==
    \E i \in OrderIds : /\ orders[i].userId = u
                        /\ orders[i].assetId = a
                        /\ orders[i].status = st

\* The check refusing also when a PENDING order of the pair exists.
CheckoutPaidOrPending(p) ==
    /\ reqs[p].kind = "checkout" /\ reqs[p].pc = "k_paid"
    /\ reqs' = [reqs EXCEPT ![p] =
          IF \/ HasOrder(@.auth0Id, @.assetId, "PAID")
             \/ HasOrder(@.auth0Id, @.assetId, "PENDING")
          THEN Done(@, Resp("Conflict", "You already own this asset"))
          ELSE [@ EXCEPT !.pc = "k_create"]]
    /\ UNCHANGED <<users, assets, assetDownloads, orders, payments, downloads,
                   now, ticks, webhookSecret>>

\* createCheckoutSession steps 4-5: the PAID check; the recent PENDING order
\* is only logged.
CheckoutPaid(p) ==
    /\ reqs[p].kind = "checkout" /\ reqs[p].pc = "k_paid"
    /\ reqs' = [reqs EXCEPT ![p] =
          IF HasOrder(@.auth0Id, @.assetId, "PAID")
          THEN Done(@, Resp("Conflict", "You already own this asset"))
          ELSE [@ EXCEPT !.pc = "k_create"]]
    /\ UNCHANGED <<users, assets, assetDownloads, orders, payments, downloads,
                   now, ticks, webhookSecret>>

\* createCheckoutSession step 6: prisma.order.create, PENDING, amount = the
\* price of the asset as read in step 2.
CheckoutCreate(p) ==
    /\ reqs[p].kind = "checkout" /\ reqs[p].pc = "k_create"
    /\ LET o == [id |-> Len(orders) + 1, userId |-> reqs[p].auth0Id,
                 assetId |-> reqs[p].assetId,
                 totalAmount |-> reqs[p].asset.price,
                 status |-> "PENDING", stripeSessionId |-> 0] IN
         /\ orders' = Append(orders, o)
         /\ reqs' = [reqs EXCEPT ![p].pc = "k_stripe", ![p].order = o]
    /\ UNCHANGED <<users, assets, assetDownloads, payments, downloads, now,
                   ticks, webhookSecret>>

\* createCheckoutSession step 7: stripeService.createCheckoutSession succeeds.
CheckoutSession(p) ==
    /\ reqs[p].kind = "checkout" /\ reqs[p].pc = "k_stripe"
    /\ reqs' = [reqs EXCEPT ![p].pc = "k_update"]
    /\ UNCHANGED <<users, assets, assetDownloads, orders, payments, downloads,
                   now, ticks, webhookSecret>>

\* createCheckoutSession step 7: the gateway call fails; StripeService maps
\* the failure to BadRequest and the order is left as created.
CheckoutSessionFails(p) ==
    /\ reqs[p].kind = "checkout" /\ reqs[p].pc = "k_stripe"
    /\ reqs' = [reqs EXCEPT ![p] =
                  Done(@, Resp("BadRequest", "Failed to create checkout session"))]
    /\ UNCHANGED <<users, assets, assetDownloads, orders, payments, downloads,
                   now, ticks, webhookSecret>>

\* The update writing back the whole order as created, status included.
CheckoutUpdateWholeOrder(p) ==
    /\ reqs[p].kind = "checkout" /\ reqs[p].pc = "k_update"
    /\ orders' = [orders EXCEPT ![reqs[p].order.id] =
                     [reqs[p].order EXCEPT !.stripeSessionId = reqs[p].order.id]]
    /\ reqs' = [reqs EXCEPT ![p] = Done(@, Resp("OK", "session"))]
    /\ UNCHANGED <<users, assets, assetDownloads, payments, downloads, now,
                   ticks, webhookSecret>>

\* createCheckoutSession step 8: prisma.order.update with the session id.
CheckoutUpdate(p) ==
    /\ reqs[p].kind = "checkout" /\ reqs[p].pc = "k_update"
    /\ orders' = [orders EXCEPT ![reqs[p].order.id].stripeSessionId =
                                   reqs[p].order.id]
    /\ reqs' = [reqs EXCEPT ![p] = Done(@, Resp("OK", "session"))]
    /\ UNCHANGED <<users, assets, assetDownloads, payments, downloads, now,
                   ticks, webhookSecret>>

CheckoutStep(p) ==
    \/ CheckoutUser(p)
    \/ CheckoutAsset(p)
    \/ CheckoutPaid(p)
    \/ CheckoutCreate(p)
    \/ CheckoutSession(p)
    \/ CheckoutSessionFails(p)
    \/ CheckoutUpdate(p)

(* ======================== asset lifecycle ============================== *)

\* AssetsService.remove without hardDelete, called by the asset's vendor.
AssetsRemove ==
    /\ \E a \in AssetIds :
         /\ assets[a].exists /\ ~assets[a].deleted
         /\ assets' = [assets EXCEPT ![a].deleted = TRUE, ![a].status = "INACTIVE"]
    /\ UNCHANGED <<users, assetDownloads, orders, payments, downloads, now,
                   ticks, webhookSecret, reqs>>

\* AssetsService.update called by the asset's vendor: findOne excludes
\* soft-deleted assets; UpdateAssetDto may carry a price and a status.
AssetsUpdate ==
    /\ \E a \in AssetIds, pr \in Prices, st \in {"ACTIVE", "INACTIVE"} :
         /\ assets[a].exists /\ ~assets[a].deleted
         /\ assets' = [assets EXCEPT ![a].price = pr, ![a].status = st]
    /\ UNCHANGED <<users, assetDownloads, orders, payments, downloads, now,
                   ticks, webhookSecret, reqs>>

\* OrdersService.create (POST /orders): a PENDING order at the asset's
\* price for any existing user and asset, without any other check.
OrdersCreate ==
    /\ Len(orders) < MaxOrders
    /\ \E u \in Auth0Ids, a \in AssetIds :
         /\ UserExists(u) /\ assets[a].exists
         /\ orders' = Append(orders,
                [id |-> Len(orders) + 1, userId |-> u, assetId |-> a,
                 totalAmount |-> assets[a].price, status |-> "PENDING",
                 stripeSessionId |-> 0])
    /\ UNCHANGED <<users, assets, assetDownloads, payments, downloads, now,
                   ticks, webhookSecret, reqs>>

(* ======================= download issuance ============================= *)

Bodies == {b \in [hasAssetId : BOOLEAN, hasExp : BOOLEAN, exp : ExpInputs] :
             ~b.hasExp => b.exp = 0}

\* GenerateDownloadDto under the global ValidationPipe: assetId is required
\* (IsNotEmpty, IsString, IsUUID); expirationSeconds is optional, an integer
\* and at least 60.
GenerateDownloadDtoValid(b) ==
    /\ b.hasAssetId
    /\ (b.hasExp => b.exp >= MIN_EXPIRATION)

\* DownloadsController.generateDownloadUrl: the pipe rejects an invalid body
\* before the service is called.
DownloadsControllerGenerate(r) ==
    IF GenerateDownloadDtoValid(r.body)
    THEN [r EXCEPT !.called = TRUE, !.pc = "d_user"]
    ELSE Done(r, Resp("BadRequest", "Validation failed"))

PendingDownloadWrites ==
    Cardinality({q \in Procs : reqs[q].kind = "download" /\ InFlight(q)})

\* POST /downloads/generate/:assetId arrives.
DownloadStartWith(p, callers, targets, bodies, cap) ==
    /\ ~InFlight(p)
    /\ Len(downloads) + PendingDownloadWrites < cap
    /\ \E a \in callers, s \in targets, b \in bodies :
          reqs' = [reqs EXCEPT ![p] =
                     DownloadsControllerGenerate(
                        [IdleReq EXCEPT !.kind = "download", !.pc = "start",
                            !.auth0Id = a, !.assetId = s, !.body = b])]
    /\ UNCHANGED <<users, assets, assetDownloads, orders, payments, downloads,
                   now, ticks, webhookSecret>>

\* Whole-system specifications: no expiry, or one above the maximum.
SysBodies == {b \in Bodies : b.hasExp => (b.hasAssetId /\ b.exp > MAX_EXPIRATION)}

DownloadStart(p) ==
    DownloadStartWith(p, Auth0Ids, AssetIds, SysBodies, MaxSysDownloads)

\* generateDownloadUrl step 1: prisma.user.findUnique.
DownloadUser(p) ==
    /\ reqs[p].kind = "download" /\ reqs[p].pc = "d_user"
    /\ reqs' = [reqs EXCEPT ![p] =
          IF ~UserExists(@.auth0Id) THEN Done(@, Resp("NotFound", "User not found"))
          ELSE [@ EXCEPT !.pc = "d_asset"]]
    /\ UNCHANGED <<users, assets, assetDownloads, orders, payments, downloads,
                   now, ticks, webhookSecret>>

\* The checks on the asset without the deletedAt test.
DownloadAssetChecksRemovedAllowed(r, a) ==
    IF ~a.exists THEN Done(r, Resp("NotFound", "Asset not found"))
    ELSE [r EXCEPT !.asset = a, !.pc = "d_order"]

\* generateDownloadUrl step 2: the checks on the asset that was read.
DownloadAssetChecks(r, a) ==
    IF ~a.exists THEN Done(r, Resp("NotFound", "Asset not found"))
    ELSE IF a.deleted
    THEN Done([r EXCEPT !.asset = a], Resp("NotFound", "This asset has been removed"))
    ELSE [r EXCEPT !.asset = a, !.pc = "d_order"]

DownloadAsset(p) ==
    /\ reqs[p].kind = "download" /\ reqs[p].pc = "d_asset"
    /\ reqs' = [reqs EXCEPT ![p] = DownloadAssetChecks(@, assets[@.assetId])]
    /\ UNCHANGED <<users, assets, assetDownloads, orders, payments, downloads,
                   now, ticks, webhookSecret>>

\* prisma.order.findFirst({ where: { userId, assetId },
\*                          orderBy: { createdAt: 'desc' } }): 0 when none.
LatestOrder(os, u, a) ==
    LET ids == {i \in 1..Len(os) : os[i].userId = u /\ os[i].assetId = a} IN
    IF ids = {} THEN 0 ELSE CHOOSE i \in ids : \A j \in ids : j <= i

\* The ownership gate without its PENDING branch and its final status test.
DownloadOrderChecksNoPending(r, o) ==
    IF o.id = 0 THEN Done(r, Resp("Forbidden", "You do not own this asset"))
    ELSE IF o.status = "FAILED"
    THEN Done([r EXCEPT !.order = o], Resp("Forbidden", "Payment failed"))
    ELSE [r EXCEPT !.order = o, !.pc = "d_count"]

\* generateDownloadUrl step 3: the ownership gate on the order that was read.
DownloadOrderChecks(r, o) ==
    IF o.id = 0 THEN Done(r, Resp("Forbidden", "You do not own this asset"))
    ELSE IF o.status = "PENDING"
    THEN Done([r EXCEPT !.order = o], Resp("Forbidden", "Payment not confirmed yet"))
    ELSE IF o.status = "FAILED"
    THEN Done([r EXCEPT !.order = o], Resp("Forbidden", "Payment failed"))
    ELSE IF o.status # "PAID"
    THEN Done([r EXCEPT !.order = o], Resp("Forbidden", "No access"))
    ELSE [r EXCEPT !.order = o, !.pc = "d_count"]

DownloadOrder(p) ==
    /\ reqs[p].kind = "download" /\ reqs[p].pc = "d_order"
    /\ LET id == LatestOrder(orders, reqs[p].auth0Id, reqs[p].assetId) IN
         reqs' = [reqs EXCEPT ![p] =
                    DownloadOrderChecks(@, IF id = 0 THEN NoOrder ELSE orders[id])]
    /\ UNCHANGED <<users, assets, assetDownloads, orders, payments, downloads,
                   now, ticks, webhookSecret>>

\* The window taken as one minute instead of one hour.
RecentDownloadsLastMinute(ds, u, a, t) ==
    Cardinality({i \in 1..Len(ds) : /\ ds[i].userId = u
                                    /\ ds[i].assetId = a
                                    /\ ds[i].createdAt >= t - 60})

\* prisma.download.count({ where: { userId, assetId,
\*                                  createdAt: { gte: oneHourAgo } } })
RecentDownloads(ds, u, a, t) ==
    Cardinality({i \in 1..Len(ds) : /\ ds[i].userId = u
                                    /\ ds[i].assetId = a
                                    /\ ds[i].createdAt >= t - RATE_WINDOW})

\* const expiration = expirationSeconds || this.DEFAULT_EXPIRATION
Expiration(b) == IF b.hasExp /\ b.exp # 0 THEN b.exp ELSE DEFAULT_EXPIRATION

\* The rate limit compared with > instead of >=.
DownloadLimitChecksOffByOne(r, recent) ==
    IF recent > MAX_DOWNLOADS_PER_HOUR
    THEN Done(r, Resp("Conflict", "Download limit exceeded"))
    ELSE IF Expiration(r.body) > MAX_EXPIRATION
    THEN Done(r, Resp("BadRequest", "Expiration cannot exceed 3600 seconds"))
    ELSE [r EXCEPT !.expiration = Expiration(r.body), !.pc = "d_sign"]

\* generateDownloadUrl steps 4-5: the rate limit on the count that was read,
\* then the upper bound on the expiry.
DownloadLimitChecks(r, recent) ==
    IF recent >= MAX_DOWNLOADS_PER_HOUR
    THEN Done(r, Resp("Conflict", "Download limit exceeded"))
    ELSE IF Expiration(r.body) > MAX_EXPIRATION
    THEN Done(r,
              Resp("BadRequest", "Expiration cannot exceed 3600 seconds"))
    ELSE [r EXCEPT !.expiration = Expiration(r.body),
                   !.pc = "d_sign"]

DownloadCount(p) ==
    /\ reqs[p].kind = "download" /\ reqs[p].pc = "d_count"
    /\ reqs' = [reqs EXCEPT ![p] =
          DownloadLimitChecks([@ EXCEPT !.at = now],
                              RecentDownloads(downloads, @.auth0Id, @.assetId, now))]
    /\ UNCHANGED <<users, assets, assetDownloads, orders, payments, downloads,
                   now, ticks, webhookSecret>>

\* generateDownloadUrl step 6: storageService.getPresignedUrl.
DownloadSign(p) ==
    /\ reqs[p].kind = "download" /\ reqs[p].pc = "d_sign"
    /\ reqs' = [reqs EXCEPT ![p].pc = "d_insert"]
    /\ UNCHANGED <<users, assets, assetDownloads, orders, payments, downloads,
                   now, ticks, webhookSecret>>

\* generateDownloadUrl step 6: storageService.getPresignedUrl rejects; it
\* rethrows, and so does generateDownloadUrl.
DownloadSignFails(p) ==
    /\ reqs[p].kind = "download" /\ reqs[p].pc = "d_sign"
    /\ reqs' = [reqs EXCEPT ![p] =
                  Done(@, Resp("InternalError", "Internal server error"))]
    /\ UNCHANGED <<users, assets, assetDownloads, orders, payments, downloads,
                   now, ticks, webhookSecret>>

\* generateDownloadUrl step 7: prisma.download.create; createdAt defaults to
\* the time of the insert.
DownloadInsert(p) ==
    /\ reqs[p].kind = "download" /\ reqs[p].pc = "d_insert"
    /\ downloads' = Append(downloads, [userId |-> reqs[p].auth0Id,
                                       assetId |-> reqs[p].assetId,
                                       createdAt |-> now])
    /\ reqs' = [reqs EXCEPT ![p].pc = "d_incr"]
    /\ UNCHANGED <<users, assets, assetDownloads, orders, payments, now,
                   ticks, webhookSecret>>

\* An increment that is lost when the counter was already written.
incrementDownloadsLostUpdate(counts, id) ==
    [counts EXCEPT ![id] = IF @ = 0 THEN 1 ELSE @]

\* AssetsService.incrementDownloads: an atomic increment in the ledger.
incrementDownloads(counts, id) == [counts EXCEPT ![id] = @ + 1]

\* generateDownloadUrl step 8 and the response.
DownloadIncrement(p) ==
    /\ reqs[p].kind = "download" /\ reqs[p].pc = "d_incr"
    /\ assetDownloads' = incrementDownloads(assetDownloads, reqs[p].assetId)
    /\ reqs' = [reqs EXCEPT ![p] = Done(@, Resp("OK", "url"))]
    /\ UNCHANGED <<users, assets, orders, payments, downloads, now, ticks,
                   webhookSecret>>

DownloadStep(p) ==
    \/ DownloadUser(p)
    \/ DownloadAsset(p)
    \/ DownloadOrder(p)
    \/ DownloadCount(p)
    \/ DownloadSign(p)
    \/ DownloadInsert(p)
    \/ DownloadIncrement(p)

\* DownloadsService.canDownload: the user exists and
\* prisma.order.findFirst({ where: { userId, assetId, status: 'PAID' } })
\* returns a row.
canDownload(u, a) == UserExists(u) /\ HasOrder(u, a, "PAID")

(* ========================= storage access ============================== *)

\* OrdersService.findUserOrders returns, for every Order of the caller in
\* any status, the asset with its sourceFileKey.
ExposedSourceKey(u, a) ==
    \E o \in OrderIds : orders[o].userId = u /\ orders[o].assetId = a

\* GET /storage/download/:key by an authenticated user, with the key of an
\* asset's source file read from the caller's order list:
\* StorageController.getDownloadUrl passes the key to getPresignedUrl.
StorageGetDownloadUrl(p) ==
    /\ ~InFlight(p)
    /\ \E u \in Auth0Ids, a \in AssetIds :
          /\ UserExists(u) /\ assets[a].exists
          /\ ExposedSourceKey(u, a)
          /\ reqs' = [reqs EXCEPT ![p] =
                Done([IdleReq EXCEPT !.kind = "storage", !.auth0Id = u,
                                     !.assetId = a, !.called = TRUE],
                     Resp("OK", "url"))]
    /\ UNCHANGED <<users, assets, assetDownloads, orders, payments, downloads,
                   now, ticks, webhookSecret>>

(* ========================= users and roles ============================= *)

\* The users table with an ADMIN and a CLIENT, no order yet.
InitAuth ==
    /\ users = [a \in {"admin", "buyer"} |->
                  IF a = "admin"
                  THEN [role |-> "ADMIN", email |-> "e1", name |-> "n1"]
                  ELSE [role |-> "CLIENT", email |-> "e2", name |-> Null]]
    /\ assets = [a \in AssetIds |->
                  IF a = "a1"
                  THEN [exists |-> TRUE, vendorId |-> "vendor", status |-> "ACTIVE",
                        deleted |-> FALSE, price |-> InitialPrice]
                  ELSE NoAsset]
    /\ orders = <<>>
    /\ payments = <<>>
    /\ assetDownloads = [a \in AssetIds |-> 0]
    /\ downloads = <<>>
    /\ now = 0
    /\ ticks = 0
    /\ webhookSecret = TRUE
    /\ reqs = [p \in Procs |-> IdleReq]

\* !auth0Id || !email
InvalidProfile(pr) == pr.auth0Id = Undefined \/ pr.email = Undefined

\* user.email !== email || user.name !== name: a NULL name never equals a
\* missing one.
ProfileChanged(user, pr) == user.email # pr.email \/ user.name # pr.name

\* An update that also resets the role to the default one.
UserUpdateDataWithRole(user, pr) ==
    [role |-> "CLIENT", email |-> pr.email,
     name |-> IF pr.name = Undefined THEN user.name ELSE pr.name]

\* data: { email, name: name || user.name }
UserUpdateData(user, pr) ==
    [email |-> pr.email,
     name |-> IF pr.name = Undefined THEN user.name ELSE pr.name]

\* data: { auth0Id, email, name, role: 'CLIENT' }
UserCreateData(pr) ==
    [role |-> "CLIENT", email |-> pr.email,
     name |-> IF pr.name = Undefined THEN Null ELSE pr.name]

\* prisma.user.update({ where: { id }, data }): the columns named in data
\* are written, the others are left as they are.
UsersUpdate(us, id, data) ==
    [us EXCEPT ![id] = [f \in DOMAIN us[id] |->
                          IF f \in DOMAIN data THEN data[f] ELSE us[id][f]]]

\* prisma.user.create({ data })
UsersCreate(us, id, row) ==
    [a \in DOMAIN us \cup {id} |-> IF a = id THEN row ELSE us[a]]

\* AuthService.findOrCreateUser is called with a profile; a profile
\* without auth0Id or email is refused before the table is read.
FindOrCreateStart(p) ==
    /\ ~InFlight(p)
    /\ \E pr \in Profiles :
          reqs' = [reqs EXCEPT ![p] =
            LET r == [IdleReq EXCEPT !.kind = "auth", !.pc = "u_find",
                                     !.profile = pr]
            IN  IF InvalidProfile(pr)
                THEN Done(r, Resp("BadRequest",
                          "Invalid Auth0 profile: missing auth0Id or email"))
                ELSE r]
    /\ UNCHANGED <<users, assets, assetDownloads, orders, payments, downloads,
                   now, ticks, webhookSecret>>

\* prisma.user.findUnique({ where: { auth0Id } }) and the branch on its
\* result.
FindOrCreateFind(p) ==
    /\ reqs[p].kind = "auth" /\ reqs[p].pc = "u_find"
    /\ LET r == reqs[p]
           id == r.profile.auth0Id
       IN  reqs' = [reqs EXCEPT ![p] =
             IF UserExists(id)
             THEN IF ProfileChanged(users[id], r.profile)
                  THEN [r EXCEPT !.pc = "u_update", !.user = users[id]]
                  ELSE Done([r EXCEPT !.user = users[id]], Resp("OK", "existing"))
             ELSE [r EXCEPT !.pc = "u_create"]]
    /\ UNCHANGED <<users, assets, assetDownloads, orders, payments, downloads,
                   now, ticks, webhookSecret>>

\* prisma.user.update({ where: { id: user.id }, data: { email, name } })
FindOrCreateUpdate(p) ==
    /\ reqs[p].kind = "auth" /\ reqs[p].pc = "u_update"
    /\ LET r == reqs[p]
           id == r.profile.auth0Id
       IN  IF UserExists(id)
           THEN /\ users' = UsersUpdate(users, id,
                                        UserUpdateData(r.user, r.profile))
                /\ reqs' = [reqs EXCEPT ![p] =
                              Done([r EXCEPT !.user = users'[id]],
                                   Resp("OK", "updated"))]
           ELSE /\ users' = users
                /\ reqs' = [reqs EXCEPT ![p] =
                     Done(r, Resp("InternalError", "Internal server error"))]
    /\ UNCHANGED <<assets, assetDownloads, orders, payments, downloads,
                   now, ticks, webhookSecret>>

\* prisma.user.create: auth0Id is the key findUnique reads by, so a second
\* row with the same auth0Id is rejected.
FindOrCreateCreate(p) ==
    /\ reqs[p].kind = "auth" /\ reqs[p].pc = "u_create"
    /\ LET r == reqs[p]
           id == r.profile.auth0Id
       IN  IF UserExists(id)
           THEN /\ users' = users
                /\ reqs' = [reqs EXCEPT ![p] =
                     Done(r, Resp("InternalError", "Internal server error"))]
           ELSE /\ users' = UsersCreate(users, id, UserCreateData(r.profile))
                /\ reqs' = [reqs EXCEPT ![p] =
                              Done([r EXCEPT !.user = users'[id]],
                                   Resp("OK", "created"))]
    /\ UNCHANGED <<assets, assetDownloads, orders, payments, downloads,
                   now, ticks, webhookSecret>>

\* The awaited call rejects: the catch logs and rethrows.
FindOrCreateFails(p) ==
    /\ reqs[p].kind = "auth"
    /\ reqs[p].pc \in {"u_find", "u_update", "u_create"}
    /\ reqs' = [reqs EXCEPT ![p] =
                  Done(@, Resp("InternalError", "Internal server error"))]
    /\ UNCHANGED <<users, assets, assetDownloads, orders, payments, downloads,
                   now, ticks, webhookSecret>>

FindOrCreateStep(p) ==
    \/ FindOrCreateFind(p)
    \/ FindOrCreateUpdate(p)
    \/ FindOrCreateCreate(p)

\* Any User passes for an administrator.
IsKnownUser(us, a) == a \in DOMAIN us

\* !(!admin || admin.role !== 'ADMIN')
IsAdmin(us, a) == a \in DOMAIN us /\ us[a].role = "ADMIN"

\* A role-update request arrives: the requester's auth0Id, the target's
\* id and the new role.
UpdateUserRoleStart(p, k) ==
    /\ ~InFlight(p)
    /\ \E u \in AccountIds, t \in AccountIds, nr \in UserRoles :
          reqs' = [reqs EXCEPT ![p] =
                     [IdleReq EXCEPT !.kind = k, !.pc = "r_admin",
                                     !.auth0Id = u, !.targetUserId = t,
                                     !.newRole = nr]]
    /\ UNCHANGED <<users, assets, assetDownloads, orders, payments, downloads,
                   now, ticks, webhookSecret>>

\* PATCH /auth/users/:userId/role
AuthUpdateUserRoleStart(p) == UpdateUserRoleStart(p, "role")

\* PATCH /admin/users/:id/role
AdminUpdateUserRoleStart(p) == UpdateUserRoleStart(p, "adminrole")

\* AuthService.updateUserRole: the requester is read and checked.
AuthUpdateUserRoleAdmin(p) ==
    /\ reqs[p].kind = "role" /\ reqs[p].pc = "r_admin"
    /\ reqs' = [reqs EXCEPT ![p] =
          IF ~IsAdmin(users, @.auth0Id)
          THEN Done(@, Resp("Forbidden", "Only admins can change user roles"))
          ELSE [@ EXCEPT !.pc = "r_target"]]
    /\ UNCHANGED <<users, assets, assetDownloads, orders, payments, downloads,
                   now, ticks, webhookSecret>>

\* AuthService.updateUserRole: the target is read and checked.
AuthUpdateUserRoleTarget(p) ==
    /\ reqs[p].kind = "role" /\ reqs[p].pc = "r_target"
    /\ LET r == reqs[p] IN
       reqs' = [reqs EXCEPT ![p] =
          IF ~UserExists(r.targetUserId)
          THEN Done(r, Resp("NotFound", "Target user not found"))
          ELSE [r EXCEPT !.pc = "r_update"]]
    /\ UNCHANGED <<users, assets, assetDownloads, orders, payments, downloads,
                   now, ticks, webhookSecret>>

\* AdminService.updateUserRole: the requester is read and checked.
AdminUpdateUserRoleAdmin(p) ==
    /\ reqs[p].kind = "adminrole" /\ reqs[p].pc = "r_admin"
    /\ reqs' = [reqs EXCEPT ![p] =
          IF ~IsAdmin(users, @.auth0Id)
          THEN Done(@, Resp("Forbidden", "Admin privileges required"))
          ELSE [@ EXCEPT !.pc = "r_target"]]
    /\ UNCHANGED <<users, assets, assetDownloads, orders, payments, downloads,
                   now, ticks, webhookSecret>>

\* AdminService.updateUserRole: the target is read and checked, then the
\* requester's own demotion is refused.
AdminUpdateUserRoleTarget(p) ==
    /\ reqs[p].kind = "adminrole" /\ reqs[p].pc = "r_target"
    /\ LET r == reqs[p] IN
       reqs' = [reqs EXCEPT ![p] =
          IF ~UserExists(r.targetUserId)
          THEN Done(r, Resp("NotFound", "User not found"))
          ELSE IF r.targetUserId = r.auth0Id /\ r.newRole # "ADMIN"
          THEN Done(r, Resp("BadRequest", "You cannot demote yourself"))
          ELSE [r EXCEPT !.pc = "r_update"]]
    /\ UNCHANGED <<users, assets, assetDownloads, orders, payments, downloads,
                   now, ticks, webhookSecret>>

\* prisma.user.update({ where: { id }, data: { role: newRole } }), in both
\* services.
UpdateUserRoleUpdate(p) ==
    /\ reqs[p].kind \in {"role", "adminrole"} /\ reqs[p].pc = "r_update"
    /\ LET r == reqs[p] IN
       IF UserExists(r.targetUserId)
       THEN /\ users' = UsersUpdate(users, r.targetUserId,
                                    [role |-> r.newRole])
            /\ reqs' = [reqs EXCEPT ![p] = Done(r, Resp("OK", "role updated"))]
       ELSE /\ users' = users
            /\ reqs' = [reqs EXCEPT ![p] =
                  Done(r, Resp("InternalError", "Internal server error"))]
    /\ UNCHANGED <<assets, assetDownloads, orders, payments, downloads,
                   now, ticks, webhookSecret>>

AuthUpdateUserRoleStep(p) ==
    \/ AuthUpdateUserRoleAdmin(p)
    \/ AuthUpdateUserRoleTarget(p)

AdminUpdateUserRoleStep(p) ==
    \/ AdminUpdateUserRoleAdmin(p)
    \/ AdminUpdateUserRoleTarget(p)

(* ------------------------------ clock ---------------------------------- *)
TickUpTo(cap) ==
    /\ ticks < cap
    /\ \E d \in TickSteps : now' = now + d
    /\ ticks' = ticks + 1
    /\ UNCHANGED <<users, assets, assetDownloads, orders, payments, downloads,
                   webhookSecret, reqs>>

Tick == TickUpTo(MaxTicks)

ConcTick == TickUpTo(MaxConcTicks)

(* --------------------------- ledger faults ----------------------------- *)
\* The awaited ledger call a request is about to make rejects.  In
\* handleCheckoutComplete the catch rethrows and handleWebhook rethrows
\* again; in handlePaymentFailed the catch only logs; the other handlers
\* let the error reach the exception filter.
LedgerFault(p) ==
    /\ InFlight(p)
    /\ reqs[p].pc \notin {"k_stripe", "d_sign"}
    /\ reqs' = [reqs EXCEPT ![p] =
          IF @.pc \in {"pf_update", "pf_insert"} THEN Done(@, Received)
          ELSE Done(@, Resp("InternalError", "Internal server error"))]
    /\ UNCHANGED <<users, assets, assetDownloads, orders, payments, downloads,
                   now, ticks, webhookSecret>>

(* ========================= specifications ============================== *)

\* Requests served one after another: a request starts, in slot 1, only
\* when no other is in flight.
SeqWebhook == NoneInFlight /\ WebhookStart(1)

SeqCompleted == NoneInFlight /\ CompletedStart(1)

SeqCheckout == NoneInFlight /\ CheckoutStart(1)

SeqDownload == NoneInFlight /\ DownloadStart(1)

SeqAssetsRemove == NoneInFlight /\ AssetsRemove

Next ==
    \/ SeqWebhook
    \/ SeqCheckout
    \/ SeqDownload
    \/ SeqAssetsRemove
    \/ WebhookStep(1)
    \/ CheckoutStep(1)
    \/ DownloadStep(1)

Spec == Init /\ [][Next]_vars

\* Webhook deliveries and checkouts, one after another, with ledger calls
\* that may fail.
NextFault ==
    \/ SeqWebhook
    \/ SeqCheckout
    \/ WebhookStep(1)
    \/ CheckoutStep(1)
    \/ LedgerFault(1)

SpecFault == Init /\ [][NextFault]_vars

\* Checkouts and deliveries of 'checkout.session.completed' only, one after
\* another.
NextSettle ==
    \/ SeqCompleted
    \/ SeqCheckout
    \/ CheckoutStep(1)
    \/ CheckoutCompleteFind(1)
    \/ CheckoutCompleteUpdate(1)
    \/ CheckoutCompleteInsert(1)

SpecSettle == Init /\ [][NextSettle]_vars

\* The same with the handlers of all slots interleaving at their awaits.
NextSettleConc ==
    \E p \in Procs :
        \/ CompletedStart(p)
        \/ CheckoutStart(p)
        \/ CheckoutStep(p)
        \/ CheckoutCompleteFind(p)
        \/ CheckoutCompleteUpdate(p)
        \/ CheckoutCompleteInsert(p)

SpecSettleConc == Init /\ [][NextSettleConc]_vars

\* A ledger in which the buyer's checkout of asset a1 has been settled.
InitPaid ==
    /\ users = [a \in {"buyer", "vendor"} |->
                  [role |-> IF a = "vendor" THEN "VENDEUR" ELSE "CLIENT"]]
    /\ assets = [a \in AssetIds |->
                  IF a = "a1"
                  THEN [exists |-> TRUE, vendorId |-> "vendor", status |-> "ACTIVE",
                        deleted |-> FALSE, price |-> InitialPrice]
                  ELSE NoAsset]
    /\ orders = <<[id |-> 1, userId |-> "buyer", assetId |-> "a1",
                   totalAmount |-> assets["a1"].price, status |-> "PAID",
                   stripeSessionId |-> 1]>>
    /\ payments = <<PaymentRow(1, assets["a1"].price, "SUCCEEDED")>>
    /\ assetDownloads = [a \in AssetIds |-> 0]
    /\ downloads = <<>>
    /\ now = 0
    /\ ticks = 0
    /\ webhookSecret = TRUE
    /\ reqs = [p \in Procs |-> IdleReq]

DefaultBody == [hasAssetId |-> TRUE, hasExp |-> FALSE, exp |-> 0]

\* The buyer asks for a link to a1 with the default expiry.
RateDownload(p) ==
    DownloadStartWith(p, {"buyer"}, {"a1"}, {DefaultBody}, MaxDownloads)

SeqRateDownload == NoneInFlight /\ RateDownload(1)

\* The buyer's requests for a1, one after another, while time passes.
NextRate ==
    \/ SeqRateDownload
    \/ DownloadStep(1)
    \/ Tick

SpecRate == InitPaid /\ [][NextRate]_vars

\* The buyer's requests for a1 in all slots, interleaving at their awaits.
NextRateConc ==
    \/ \E p \in Procs : RateDownload(p) \/ DownloadStep(p)
    \/ ConcTick

SpecRateConc == InitPaid /\ [][NextRateConc]_vars

\* The buyer asks for a link to a1 with any body.
SeqExpiryDownload ==
    NoneInFlight /\ DownloadStartWith(1, {"buyer"}, {"a1"}, Bodies, MaxSysDownloads)

NextExpiry ==
    \/ SeqExpiryDownload
    \/ DownloadStep(1)

SpecExpiry == InitPaid /\ [][NextExpiry]_vars

\* Downloads and checkouts in all slots while the vendor may remove a1; no
\* order is ever settled.
NextOpacity ==
    \/ \E p \in Procs :
          \/ DownloadStart(p)
          \/ DownloadUser(p)
          \/ DownloadAsset(p)
          \/ DownloadOrder(p)
          \/ CheckoutStart(p)
          \/ CheckoutStep(p)
    \/ AssetsRemove

SpecOpacity == Init /\ [][NextOpacity]_vars

\* Events of the two handled types that carry an order id.
OrderEvents ==
    {e \in WebhookInputs :
        /\ e.type \in {"checkout.session.completed",
                       "payment_intent.payment_failed"}
        /\ e.orderId # 0}

SeqOrderEvent == NoneInFlight /\ WebhookStartWith(1, OrderEvents)

SeqAssetsUpdate == NoneInFlight /\ AssetsUpdate

SeqOrdersCreate == NoneInFlight /\ OrdersCreate

\* The marketplace without downloads: checkouts, orders placed directly,
\* deliveries of order events and the vendor's changes to the asset's price
\* and status, one after another.
NextMarket ==
    \/ SeqCheckout
    \/ SeqOrdersCreate
    \/ SeqOrderEvent
    \/ SeqAssetsUpdate
    \/ CheckoutStep(1)
    \/ WebhookStep(1)

SpecMarket == Init /\ [][NextMarket]_vars

\* Requests for links by any caller for any asset, one after another, with
\* a storage service that may fail to sign, while the vendor may remove a1.
NextIssue ==
    \/ SeqDownload
    \/ SeqAssetsRemove
    \/ DownloadStep(1)
    \/ DownloadSignFails(1)

SpecIssue == InitPaid /\ [][NextIssue]_vars

\* The signed 'checkout.session.completed' event of Order o.
CompletedEventOf(o) ==
    [type |-> "checkout.session.completed", hasMeta |-> TRUE, orderId |-> o,
     amount |-> 0]

\* The last delivery (slot 1) was answered with an error, so the processor
\* owes a redelivery of the same event.
RedeliveryDue ==
    /\ IsDoneWebhook(1)
    /\ reqs[1].resp # Received

\* At-least-once delivery: the processor delivers the event of a PENDING
\* Order, and delivers the same event again while the last delivery was
\* not answered with success.
DeliverCompleted ==
    /\ ~InFlight(1)
    /\ \E o \in OrderIds :
          /\ IF RedeliveryDue THEN o = reqs[1].ev.orderId
             ELSE orders[o].status = "PENDING"
          /\ reqs' = [reqs EXCEPT ![1] =
                WebhookDispatch([IdleReq EXCEPT !.kind = "webhook",
                                   !.pc = "start", !.ev = CompletedEventOf(o),
                                   !.sig = "valid"])]
    /\ UNCHANGED <<users, assets, assetDownloads, orders, payments, downloads,
                   now, ticks, webhookSecret>>

\* Deliveries in slot 1, whose ledger calls may fail, while checkouts go on
\* in slot 2.
NextRedeliver ==
    \/ DeliverCompleted
    \/ CheckoutCompleteFind(1)
    \/ CheckoutCompleteUpdate(1)
    \/ CheckoutCompleteInsert(1)
    \/ LedgerFault(1)
    \/ CheckoutStart(2)
    \/ CheckoutStep(2)

\* The processor keeps delivering, the handler keeps running, and a ledger
\* call that is attempted again and again eventually succeeds (failures are
\* transient).
SpecRedeliver ==
    /\ Init
    /\ [][NextRedeliver]_vars
    /\ WF_vars(DeliverCompleted)
    /\ SF_vars(CheckoutCompleteFind(1))
    /\ SF_vars(CheckoutCompleteUpdate(1))
    /\ SF_vars(CheckoutCompleteInsert(1))

SeqStorageGetDownloadUrl == NoneInFlight /\ StorageGetDownloadUrl(1)

\* Every operation that hands out a signed URL for a source file, with
\* checkouts and their settlement, one after another.
NextUrls ==
    \/ SeqCheckout
    \/ SeqCompleted
    \/ SeqDownload
    \/ SeqStorageGetDownloadUrl
    \/ CheckoutStep(1)
    \/ CheckoutCompleteFind(1)
    \/ CheckoutCompleteUpdate(1)
    \/ CheckoutCompleteInsert(1)
    \/ DownloadStep(1)

SpecUrls == Init /\ [][NextUrls]_vars

\* Any caller asks for a link to any asset with any body.
SeqAnyDownload ==
    NoneInFlight /\ DownloadStartWith(1, Auth0Ids, AssetIds, Bodies,
                                      MaxSysDownloads)

\* Requests for links with every combination of caller, asset and body,
\* one after another, while the vendor may remove a1.
NextChecks ==
    \/ SeqAnyDownload
    \/ SeqAssetsRemove
    \/ DownloadStep(1)

SpecChecks == InitPaid /\ [][NextChecks]_vars

SeqFindOrCreateUser == NoneInFlight /\ FindOrCreateStart(1)

SeqAuthUpdateUserRole == NoneInFlight /\ AuthUpdateUserRoleStart(1)

SeqAdminUpdateUserRole == NoneInFlight /\ AdminUpdateUserRoleStart(1)

\* Sign-ins, whose reads and writes of the users table may fail, and role
\* updates through both routes, one after another.
NextAuth ==
    \/ SeqFindOrCreateUser
    \/ SeqAuthUpdateUserRole
    \/ SeqAdminUpdateUserRole
    \/ FindOrCreateStep(1)
    \/ FindOrCreateFails(1)
    \/ AuthUpdateUserRoleStep(1)
    \/ AdminUpdateUserRoleStep(1)
    \/ UpdateUserRoleUpdate(1)

SpecAuth == InitAuth /\ [][NextAuth]_vars

(* ============================= claims ================================== *)

IsDone(p, k) == reqs[p].kind = k /\ reqs[p].pc = "done"

\* A 'checkout.session.completed' delivery that came back {received: true}.
CompletedDelivered(p) ==
    /\ IsDone(p, "webhook")
    /\ reqs[p].ev.type = "checkout.session.completed"
    /\ reqs[p].resp = Received

\* C1: when deliveries of 'checkout.session.completed' are processed one
\* after another, then after each delivery (the first as well as every
\* repeated one) that names an existing Order, the Order is PAID and exactly
\* one Payment row with status SUCCEEDED exists for it.
C1_IdempotentSettlement ==
    \A p \in Procs :
        (CompletedDelivered(p) /\ reqs[p].ev.orderId \in OrderIds) =>
            /\ orders[reqs[p].ev.orderId].status = "PAID"
            /\ Cardinality(PaymentsOf(reqs[p].ev.orderId, "SUCCEEDED")) = 1

\* A repeated delivery: it was answered by the idempotency gate (no order
\* snapshot was taken) for an Order that is settled.
C1_Witness ==
    \E p \in Procs :
        /\ CompletedDelivered(p)
        /\ reqs[p].ev.orderId \in OrderIds
        /\ reqs[p].order = NoOrder
        /\ orders[reqs[p].ev.orderId].status = "PAID"
        /\ Cardinality(PaymentsOf(reqs[p].ev.orderId, "SUCCEEDED")) = 1

\* C2: with concurrent deliveries of 'checkout.session.completed' for the
\* same Order, at most one Payment row with status SUCCEEDED is ever
\* created for that Order.
C2_AtMostOneSucceeded ==
    \A o \in OrderIds : Cardinality(PaymentsOf(o, "SUCCEEDED")) <= 1

\* C3: served one after another with checkouts and webhook events, a call
\* of generateDownloadUrl(user, asset) returns a URL only if a PAID Order of
\* that user for that asset exists, and when none exists it fails with
\* Forbidden or NotFound.
C3_EntitlementGate ==
    \A p \in Procs :
        (IsDone(p, "download") /\ reqs[p].called) =>
            LET paid == HasOrder(reqs[p].auth0Id, reqs[p].assetId, "PAID") IN
            /\ (reqs[p].resp.status = "OK" => paid)
            /\ (~paid => reqs[p].resp.status \in {"Forbidden", "NotFound"})

\* A URL was issued to the holder of a PAID Order.
C3_Witness ==
    \E p \in Procs :
        /\ IsDone(p, "download") /\ reqs[p].called
        /\ reqs[p].resp.status = "OK"
        /\ HasOrder(reqs[p].auth0Id, reqs[p].assetId, "PAID")

\* C4: once an Order is PAID or FAILED, no step of any webhook handler
\* changes its status.
C4_TerminalStatus ==
    [][\A o \in OrderIds :
          orders[o].status \in {"PAID", "FAILED"} =>
              orders'[o].status = orders[o].status]_vars

\* The signature check of a webhook request did not pass: the header is
\* absent or constructWebhookEvent threw.
SignatureRejected(r) ==
    r.sig = "missing" \/ ~constructWebhookEvent(webhookSecret, r.sig)

\* C5: handleWebhook answers {received: true} to every request whose
\* signature check passed, also when a ledger call fails, and answers with
\* an error only when the signature check failed.
C5_OnlySignatureRejects ==
    \A p \in Procs :
        IsDone(p, "webhook") =>
            (reqs[p].resp = Received <=> ~SignatureRejected(reqs[p]))

\* C6: a step of a webhook handler changes an Order or creates a Payment
\* only if the payload's signature was verified against the webhook secret,
\* in every configuration of the service.
C6_OnlyVerifiedPayloads ==
    [][\A p \in Procs :
          ( /\ reqs[p].kind = "webhook" /\ InFlight(p)
            /\ reqs'[p] # reqs[p]
            /\ (orders' # orders \/ payments' # payments) )
          => reqs[p].verified]_vars

\* The Download rows that were in the log when the request of slot p read
\* it; requests are served one after another, so the row a successful
\* request added is the last one.
PriorRows(p) ==
    IF reqs[p].resp.status = "OK" THEN SubSeq(downloads, 1, Len(downloads) - 1)
    ELSE downloads

Younger(rows, t, age) ==
    Cardinality({i \in 1..Len(rows) : t - rows[i].createdAt < age})

\* C7: a request of the entitled user made while 5 rows of the pair are less
\* than 3600 s old fails with Conflict, and a request made while fewer than
\* 5 rows are at most 3600 s old (the oldest rows have left the window)
\* succeeds.
C7_RateLimitBoundary ==
    \A p \in Procs :
        (IsDone(p, "download") /\ reqs[p].called) =>
            /\ (Younger(PriorRows(p), reqs[p].at, RATE_WINDOW)
                    >= MAX_DOWNLOADS_PER_HOUR
                  => reqs[p].resp.status = "Conflict")
            /\ (Younger(PriorRows(p), reqs[p].at, RATE_WINDOW + 1)
                    < MAX_DOWNLOADS_PER_HOUR
                  => reqs[p].resp.status = "OK")

\* Five rows lay within one window, the oldest of them has left the window
\* and the request made then, the sixth, succeeded.
C7_Witness ==
    \E p \in Procs :
        /\ IsDone(p, "download") /\ reqs[p].resp.status = "OK"
        /\ Len(downloads) = MAX_DOWNLOADS_PER_HOUR + 1
        /\ downloads[MAX_DOWNLOADS_PER_HOUR].createdAt - downloads[1].createdAt
              < RATE_WINDOW
        /\ reqs[p].at - downloads[1].createdAt > RATE_WINDOW
        /\ Younger(PriorRows(p), reqs[p].at, RATE_WINDOW + 1)
              = MAX_DOWNLOADS_PER_HOUR - 1

\* Rows of the log created in the 3600 s window that starts at time t.
RowsInWindow(t) ==
    {j \in 1..Len(downloads) :
        t <= downloads[j].createdAt /\ downloads[j].createdAt <= t + RATE_WINDOW}

\* C8: with k = NProcs concurrent requests of the same user for the same
\* asset, no 3600 s window ever holds more than 5 + (k - 1) Download rows
\* of the pair.
C8_RaceBound ==
    \A i \in 1..Len(downloads) :
        Cardinality(RowsInWindow(downloads[i].createdAt))
            <= MAX_DOWNLOADS_PER_HOUR + (NProcs - 1)

\* The race happened: a window holds more rows than the limit.
C8_Witness ==
    \E i \in 1..Len(downloads) :
        Cardinality(RowsInWindow(downloads[i].createdAt)) > MAX_DOWNLOADS_PER_HOUR

\* C9: for the entitled caller below the rate limit, a request is accepted
\* exactly when it gives no expiry or one between 60 and 3600, it fails with
\* BadRequest otherwise, and expiresIn is the expiry given, or 300.
C9_ExpiryBounds ==
    \A p \in Procs :
        (IsDone(p, "download") /\ Len(PriorRows(p)) < MAX_DOWNLOADS_PER_HOUR) =>
            LET b == reqs[p].body
                ok == ~b.hasExp \/ (MIN_EXPIRATION <= b.exp /\ b.exp <= MAX_EXPIRATION)
            IN /\ (ok => /\ reqs[p].resp.status = "OK"
                         /\ reqs[p].expiration =
                               IF b.hasExp THEN b.exp ELSE DEFAULT_EXPIRATION)
               /\ (~ok => reqs[p].resp.status = "BadRequest")

\* The request of slot p got as far as reading the asset.
ReadAsset(p, k) ==
    /\ IsDone(p, k) /\ reqs[p].called
    /\ UserExists(reqs[p].auth0Id)

\* C10: for the same caller and the same operation, the response for a
\* soft-deleted asset equals the response for an asset id that never existed.
C10_SoftDeleteOpacity ==
    \A p, q \in Procs : \A k \in {"download", "checkout"} :
        ( /\ ReadAsset(p, k) /\ ReadAsset(q, k)
          /\ reqs[p].auth0Id = reqs[q].auth0Id
          /\ reqs[p].asset.exists /\ reqs[p].asset.deleted
          /\ ~assets[reqs[q].assetId].exists )
        => reqs[p].resp = reqs[q].resp

\* A createCheckoutSession call by the vendor of the asset it names.
VendorCheckout(p) ==
    /\ IsDone(p, "checkout")
    /\ assets[reqs[p].assetId].exists
    /\ assets[reqs[p].assetId].vendorId = reqs[p].auth0Id

\* C11: createCheckoutSession called by the vendor of an existing Asset
\* fails with BadRequest and creates no Order, whatever the Asset's status
\* and whatever Orders the vendor already has.
C11_SelfPurchase ==
    \A p \in Procs :
        VendorCheckout(p) =>
            /\ reqs[p].resp.status = "BadRequest"
            /\ reqs[p].order = NoOrder

\* The vendor, holding a PAID Order for the own asset, was refused by the
\* self-purchase check.
C11_Witness ==
    \E p \in Procs :
        /\ VendorCheckout(p)
        /\ reqs[p].resp = Resp("BadRequest", "You cannot purchase your own asset")
        /\ HasOrder(reqs[p].auth0Id, reqs[p].assetId, "PAID")

\* The PAID Orders of a pair.
PaidOrders(u, a) ==
    {o \in OrderIds : /\ orders[o].userId = u
                      /\ orders[o].assetId = a
                      /\ orders[o].status = "PAID"}

\* Those of them whose checkout session was created and persisted.
PaidSessions(u, a) == {o \in PaidOrders(u, a) : orders[o].stripeSessionId # 0}

\* C12: after any sequence of createCheckoutSession calls and webhook
\* deliveries at most one PAID Order exists for any (buyer, asset) pair, and
\* createCheckoutSession for a pair that has a PAID Order fails with Conflict
\* and creates no Order.
C12_AtMostOnePaid ==
    /\ \A u \in Auth0Ids, a \in AssetIds : Cardinality(PaidSessions(u, a)) <= 1
    /\ \A p \in Procs :
          ( /\ IsDone(p, "checkout")
            /\ reqs[p].asset.exists /\ ~reqs[p].asset.deleted
            /\ reqs[p].asset.status = "ACTIVE"
            /\ reqs[p].asset.vendorId # reqs[p].auth0Id
            /\ PaidOrders(reqs[p].auth0Id, reqs[p].assetId) # {} )
          => /\ reqs[p].resp.status = "Conflict"
             /\ reqs[p].order = NoOrder

\* C13: an Order's totalAmount is set at creation to the Asset's price at
\* that moment, and no later step (persisting the session id, a webhook
\* transition, a change of the Asset's price) changes it.
C13_TotalAmountImmutable ==
    [][ /\ Len(orders') >= Len(orders)
        /\ \A o \in OrderIds : orders'[o].totalAmount = orders[o].totalAmount
        /\ \A o \in (1..Len(orders')) \ OrderIds :
              orders'[o].totalAmount = assets[orders'[o].assetId].price ]_vars

\* An Order that went through checkout and settlement keeps the price it
\* was created at after the vendor changed the Asset's price.
C13_Witness ==
    \E o \in OrderIds :
        /\ orders[o].status = "PAID"
        /\ orders[o].stripeSessionId # 0
        /\ orders[o].totalAmount = InitialPrice
        /\ assets[orders[o].assetId].price # InitialPrice

\* C14: every Payment row with status SUCCEEDED has the amount of its
\* Order's totalAmount, also when the Asset's price was changed between
\* checkout and the webhook delivery.
C14_SucceededAmount ==
    \A i \in 1..Len(payments) :
        payments[i].status = "SUCCEEDED" =>
            payments[i].amount = orders[payments[i].orderId].totalAmount

\* A SUCCEEDED Payment for an Order whose Asset is now priced differently,
\* carrying the Order's amount.
C14_Witness ==
    \E i \in 1..Len(payments) :
        /\ payments[i].status = "SUCCEEDED"
        /\ payments[i].amount = orders[payments[i].orderId].totalAmount
        /\ payments[i].amount # assets[orders[payments[i].orderId].assetId].price

\* A generateDownloadUrl call that reached the ownership gate.
AtGate(p) ==
    /\ IsDone(p, "download") /\ reqs[p].called
    /\ UserExists(reqs[p].auth0Id)
    /\ reqs[p].asset.exists /\ ~reqs[p].asset.deleted

\* Order f of the pair received a 'payment_intent.payment_failed' event (its
\* FAILED Payment row is in the ledger) and no checkout of the pair made
\* after it has been completed.
FailedUnrecovered(u, a, f) ==
    /\ f \in OrderIds
    /\ orders[f].userId = u /\ orders[f].assetId = a
    /\ PaymentsOf(f, "FAILED") # {}
    /\ \A j \in PaidOrders(u, a) : j <= f

\* C15: after the buyer's Order for an asset received a 'payment failed'
\* event, and until a later checkout of the pair is completed, the Order is
\* FAILED, canDownload returns false and generateDownloadUrl fails with
\* Forbidden (with the 'Payment failed' message while it is the pair's
\* latest Order).
C15_FailedPaymentFlow ==
    \A u \in Auth0Ids, a \in AssetIds : \A f \in OrderIds :
        FailedUnrecovered(u, a, f) =>
            /\ orders[f].status = "FAILED"
            /\ ~canDownload(u, a)
            /\ \A p \in Procs :
                  (AtGate(p) /\ reqs[p].auth0Id = u /\ reqs[p].assetId = a) =>
                      /\ reqs[p].resp.status = "Forbidden"
                      /\ (LatestOrder(orders, u, a) = f =>
                             reqs[p].resp.msg = "Payment failed")

\* C19: a generateDownloadUrl call for a non-deleted asset gets past the
\* ownership check exactly when canDownload returns true for the pair, that
\* is, exactly when a PAID Order of the pair exists.
C19_GateAgreesWithCanDownload ==
    \A p \in Procs :
        AtGate(p) =>
            (reqs[p].resp.status # "Forbidden"
                <=> canDownload(reqs[p].auth0Id, reqs[p].assetId))

\* C16: a 'payment_intent.payment_failed' event carrying the id of an
\* existing PENDING Order sets that Order to FAILED and creates one Payment
\* row with status FAILED whose amount is the amount the processor
\* reported, whatever the Order's totalAmount.
C16_FailedEvent ==
    [][\A p \in Procs :
          LET r == reqs[p]
              id == r.ev.orderId
          IN  /\ ( /\ r.kind = "webhook" /\ r.pc = "pf_update"
                    /\ reqs'[p] # r
                    /\ id \in OrderIds /\ orders[id].status = "PENDING" )
                  => /\ orders' = [orders EXCEPT ![id].status = "FAILED"]
                     /\ payments' = payments
                     /\ reqs'[p].pc = "pf_insert"
              /\ ( /\ r.kind = "webhook" /\ r.pc = "pf_insert"
                    /\ reqs'[p] # r )
                  => /\ payments' = Append(payments,
                            [orderId |-> id, amount |-> r.ev.amount,
                             status |-> "FAILED"])
                     /\ orders' = orders
                     /\ reqs'[p].resp = Received ]_vars

\* The event was handled: the Order is FAILED and its only Payment row is
\* one FAILED row with the reported amount, which is not the Order's.
C16_Witness ==
    \E p \in Procs :
        /\ IsDone(p, "webhook")
        /\ reqs[p].ev.type = "payment_intent.payment_failed"
        /\ reqs[p].ev.orderId \in OrderIds
        /\ orders[reqs[p].ev.orderId].status = "FAILED"
        /\ Cardinality(PaymentsOf(reqs[p].ev.orderId, "FAILED")) = 1
        /\ PaymentsOf(reqs[p].ev.orderId, "SUCCEEDED") = {}
        /\ \A i \in PaymentsOf(reqs[p].ev.orderId, "FAILED") :
              /\ payments[i].amount = reqs[p].ev.amount
              /\ payments[i].amount # orders[reqs[p].ev.orderId].totalAmount

\* A webhook event that names no Order of the ledger, or is of a type that
\* is not handled.
Ignorable(e) ==
    \/ e.type \notin {"checkout.session.completed",
                      "payment_intent.payment_failed"}
    \/ e.orderId \notin OrderIds

\* C17: a verified webhook event that is of an unrecognized type, is
\* 'payment_intent.succeeded', carries no order id or carries an order id
\* matching no Order is answered {received: true} and leaves every Order
\* and Payment row unchanged.
C17_IgnoredEvents ==
    /\ [](\A p \in Procs :
            ( /\ IsDone(p, "webhook") /\ reqs[p].verified
              /\ Ignorable(reqs[p].ev) ) => reqs[p].resp = Received)
    /\ [][\A p \in Procs :
            ( /\ reqs'[p] # reqs[p] /\ reqs'[p].kind = "webhook"
              /\ reqs'[p].verified /\ Ignorable(reqs'[p].ev) )
            => (orders' = orders /\ payments' = payments)]_vars

\* The request of slot p passed the asset, ownership, rate-limit and expiry
\* checks, on the ledger as it is read now.
PassedChecks(p) ==
    LET r == reqs[p] IN
    /\ r.called /\ UserExists(r.auth0Id)
    /\ r.asset.exists /\ ~r.asset.deleted
    /\ r.order.status = "PAID"
    /\ r.order.userId = r.auth0Id /\ r.order.assetId = r.assetId
    /\ RecentDownloads(downloads, r.auth0Id, r.assetId, r.at)
          < MAX_DOWNLOADS_PER_HOUR
    /\ r.expiration = Expiration(r.body)
    /\ r.expiration <= MAX_EXPIRATION

\* C18: a Download row is appended only by a generateDownloadUrl call that
\* passed the asset, ownership, rate-limit and expiry checks and obtained a
\* signed URL; a call that fails at any of those steps leaves the Download
\* log and the Asset's downloads counter unchanged.
C18_DownloadFrame ==
    /\ [](\A p \in Procs :
            (reqs[p].kind = "download" /\ reqs[p].pc = "d_insert")
                => PassedChecks(p))
    /\ [][ /\ downloads' # downloads =>
               \E p \in Procs :
                   /\ reqs[p].kind = "download" /\ reqs[p].pc = "d_insert"
                   /\ downloads' = Append(downloads,
                          [userId |-> reqs[p].auth0Id,
                           assetId |-> reqs[p].assetId, createdAt |-> now])
           /\ assetDownloads' # assetDownloads =>
               \E p \in Procs :
                   reqs[p].kind = "download" /\ reqs[p].pc = "d_incr"
           /\ \A p \in Procs :
                 ( /\ reqs'[p] # reqs[p]
                   /\ IsDone(p, "download")' /\ reqs'[p].resp.status # "OK" )
                 => /\ reqs[p].pc \notin {"d_insert", "d_incr"}
                    /\ UNCHANGED <<downloads, assetDownloads>> ]_vars

\* A call failed at the signing step after earlier calls had succeeded: the
\* log holds exactly the rows of the successful calls.
C18_Witness ==
    \E p \in Procs :
        /\ IsDone(p, "download") /\ reqs[p].called
        /\ reqs[p].resp.status = "InternalError"
        /\ reqs[p].order.status = "PAID"
        /\ Len(downloads) > 0
        /\ assetDownloads[reqs[p].assetId] = Len(downloads)

\* Order o is PAID and has exactly one SUCCEEDED Payment row.
Settled(o) ==
    /\ o \in OrderIds
    /\ orders[o].status = "PAID"
    /\ Cardinality(PaymentsOf(o, "SUCCEEDED")) = 1

\* C20: when the processor redelivers a 'checkout.session.completed' event
\* until handleWebhook answers with success and ledger calls fail only
\* transiently, every Order named by a delivered event eventually is PAID
\* with exactly one SUCCEEDED Payment row.
C20_EventuallySettled ==
    \A o \in 1..MaxOrders :
        (reqs[1].kind = "webhook" /\ reqs[1].ev.orderId = o) ~> Settled(o)

\* The request of slot p handed a signed URL for the asset's source file to
\* its caller.
GotSignedUrl(p) ==
    /\ reqs[p].kind \in {"download", "storage"} /\ reqs[p].pc = "done"
    /\ reqs[p].resp = Resp("OK", "url")

\* C21: a signed URL for an asset's source file is handed to a user only if
\* that user holds a PAID Order for the asset or is the asset's vendor,
\* through every operation that mints signed URLs.
C21_SignedUrlOnlyForOwners ==
    \A p \in Procs :
        GotSignedUrl(p) =>
            \/ HasOrder(reqs[p].auth0Id, reqs[p].assetId, "PAID")
            \/ assets[reqs[p].assetId].vendorId = reqs[p].auth0Id

\* C22: the rate-limit count includes exactly the rows of the pair that are
\* strictly less than 3600 s old at the time of the check, so a request
\* made when fewer than 5 such rows exist (the others being 3600 s old or
\* older) succeeds.
C22_StrictWindow ==
    \A p \in Procs :
        (IsDone(p, "download") /\ reqs[p].called) =>
            (reqs[p].resp.status = "OK"
                <=> Younger(PriorRows(p), reqs[p].at, RATE_WINDOW)
                        < MAX_DOWNLOADS_PER_HOUR)

\* The status the fixed order of checks prescribes for the request of slot
\* p: the error of the earliest step whose condition holds.
FirstFailure(p) ==
    LET r == reqs[p]
        a == assets[r.assetId]
        o == LatestOrder(orders, r.auth0Id, r.assetId)
        b == r.body
    IN  IF ~a.exists \/ a.deleted THEN "NotFound"
        ELSE IF o = 0 THEN "Forbidden"
        ELSE IF orders[o].status # "PAID" THEN "Forbidden"
        ELSE IF RecentDownloads(PriorRows(p), r.auth0Id, r.assetId, now)
                  >= MAX_DOWNLOADS_PER_HOUR THEN "Conflict"
        ELSE IF b.hasExp /\ (b.exp < MIN_EXPIRATION \/ b.exp > MAX_EXPIRATION)
        THEN "BadRequest"
        ELSE "OK"

\* C23: generateDownloadUrl fails fast in the order asset missing, asset
\* soft-deleted, no Order, latest Order not PAID, rate limit, expiry bounds:
\* when several conditions hold at once the error returned is that of the
\* earliest step.
C23_FailFastOrder ==
    \A p \in Procs :
        ( /\ IsDone(p, "download")
          /\ UserExists(reqs[p].auth0Id)
          /\ reqs[p].body.hasAssetId )
        => reqs[p].resp.status = FirstFailure(p)

\* The Download rows of an asset.
RowsOf(a) == {i \in 1..Len(downloads) : downloads[i].assetId = a}

\* The calls that inserted their Download row and have not yet incremented
\* the counter.
BetweenInsertAndIncrement(a) ==
    {p \in Procs : /\ reqs[p].kind = "download" /\ reqs[p].pc = "d_incr"
                   /\ reqs[p].assetId = a}

SessionFailed(p) ==
    /\ IsDone(p, "checkout")
    /\ reqs[p].resp = Resp("BadRequest", "Failed to create checkout session")

\* An Order left behind by a failed session creation.
Orphaned(o) ==
    /\ o \in OrderIds
    /\ orders[o].status = "PENDING" /\ orders[o].stripeSessionId = 0

\* C25: when the gateway's session creation fails after the Order was
\* inserted, the call fails and the Order stays PENDING without a session
\* id; a later createCheckoutSession of the same buyer for the same asset
\* is not blocked by it and creates a new PENDING Order.
C25_OrphanedOrder ==
    \A p \in Procs :
        /\ SessionFailed(p) => Orphaned(reqs[p].order.id)
        /\ ( /\ IsDone(p, "checkout") /\ UserExists(reqs[p].auth0Id)
              /\ reqs[p].asset.exists /\ ~reqs[p].asset.deleted
              /\ reqs[p].asset.status = "ACTIVE"
              /\ reqs[p].asset.vendorId # reqs[p].auth0Id
              /\ PaidOrders(reqs[p].auth0Id, reqs[p].assetId) = {} )
            => /\ reqs[p].order.id \in OrderIds
               /\ reqs[p].order.status = "PENDING"
               /\ orders[reqs[p].order.id].userId = reqs[p].auth0Id
               /\ orders[reqs[p].order.id].assetId = reqs[p].assetId

\* After an Order of the pair was orphaned, a later checkout of the same
\* buyer for the same asset created a new Order.
C25_Witness ==
    \E p \in Procs : \E o \in OrderIds :
        /\ IsDone(p, "checkout")
        /\ Orphaned(o)
        /\ orders[o].userId = reqs[p].auth0Id
        /\ orders[o].assetId = reqs[p].assetId
        /\ reqs[p].order.id \in OrderIds /\ reqs[p].order.id > o
        /\ orders[reqs[p].order.id].status = "PENDING"

\* C26: an Order's status is written only by the webhook handlers;
\* createCheckoutSession's step that persists the session id changes no
\* other field, so an Order settled before that step runs stays PAID.
C26_StatusOnlyByWebhook ==
    [][\A o \in OrderIds :
          /\ orders'[o].status # orders[o].status =>
                \E p \in Procs : /\ reqs[p].kind = "webhook"
                                  /\ reqs[p].pc \in {"cc_update", "pf_update"}
                                  /\ reqs'[p] # reqs[p]
          /\ \A p \in Procs :
                ( /\ reqs[p].kind = "checkout" /\ reqs[p].pc = "k_update"
                  /\ reqs'[p] # reqs[p] /\ reqs[p].order.id = o )
                => orders'[o] = [orders[o] EXCEPT !.stripeSessionId =
                                                    orders'[o].stripeSessionId]
      ]_vars

\* The delivery for the Order read it before its session id was persisted,
\* the checkout then persisted the session id, and the Order is PAID.
C26_Witness ==
    \E p, q \in Procs :
        /\ IsDone(p, "checkout") /\ reqs[p].resp = Resp("OK", "session")
        /\ CompletedDelivered(q)
        /\ reqs[q].order.id = reqs[p].order.id
        /\ reqs[q].order.stripeSessionId = 0
        /\ orders[reqs[p].order.id].stripeSessionId # 0
        /\ orders[reqs[p].order.id].status = "PAID"

\* C27: for every Order there is at most one Payment row per terminal
\* status; repeated deliveries of the same 'payment_intent.payment_failed'
\* event create at most one Payment row with status FAILED.
C27_OnePaymentPerTerminalStatus ==
    \A o \in OrderIds : \A st \in {"SUCCEEDED", "FAILED"} :
        Cardinality(PaymentsOf(o, st)) <= 1

\* C28: a findOrCreateUser call never removes a User and never changes a
\* role; it adds a User only for its own auth0Id, only when none existed,
\* with role CLIENT, and reports a creation only then; it rewrites an
\* existing User only in email and name, only when the profile differs
\* from the row, and then returns that User; a profile without auth0Id or
\* email is answered BadRequest and leaves the table as it is.
C28_FindOrCreateUser ==
    [][ (reqs'[1].kind = "auth" /\ reqs'[1] # reqs[1]) =>
          LET pr == reqs'[1].profile
              r  == reqs'[1]
          IN
          /\ \A a \in DOMAIN users :
                /\ a \in DOMAIN users'
                /\ users'[a].role = users[a].role
                /\ users'[a] # users[a] =>
                      /\ a = pr.auth0Id
                      /\ users[a].email # pr.email \/ users[a].name # pr.name
                      /\ users'[a].email = pr.email
                      /\ users'[a].name \in {pr.name, users[a].name}
                      /\ r.resp = Resp("OK", "updated")
          /\ \A a \in DOMAIN users' \ DOMAIN users :
                /\ a = pr.auth0Id
                /\ users'[a].role = "CLIENT"
                /\ users'[a].email = pr.email
          /\ r.resp = Resp("OK", "created") =>
                pr.auth0Id \in DOMAIN users' \ DOMAIN users
          /\ (r.pc = "done" /\ r.resp.status = "OK") =>
                /\ pr.auth0Id \in DOMAIN users'
                /\ r.user = users'[pr.auth0Id]
          /\ (pr.auth0Id = Undefined \/ pr.email = Undefined) =>
                /\ r.pc = "done"
                /\ r.resp.status = "BadRequest"
                /\ users' = users
      ]_vars

\* "ghost" signed in and got a User, an administrator made that User a
\* VENDEUR, and a later sign-in with another email updated the row.
C28_Witness ==
    /\ IsDone(1, "auth")
    /\ reqs[1].resp = Resp("OK", "updated")
    /\ reqs[1].profile.auth0Id = "ghost"
    /\ "ghost" \in DOMAIN users
    /\ users["ghost"].role = "VENDEUR"
    /\ users["ghost"].email = "e2"

\* C29: a User's role changes only in the write of a role update whose
\* requester is an existing User with role ADMIN and whose target exists,
\* and becomes the requested role; a role update by a requester who is not
\* an existing ADMIN ends Forbidden, one by an ADMIN for a target that
\* does not exist ends NotFound, and neither changes the users table.
C29_RoleChangeOnlyByAdmin ==
    [][ /\ \A a \in DOMAIN users :
              /\ a \in DOMAIN users'
              /\ users'[a].role # users[a].role =>
                    /\ reqs[1].kind \in {"role", "adminrole"}
                    /\ reqs[1].pc = "r_update"
                    /\ reqs[1].targetUserId = a
                    /\ reqs[1].auth0Id \in DOMAIN users
                    /\ users[reqs[1].auth0Id].role = "ADMIN"
                    /\ users'[a].role = reqs[1].newRole
        /\ ( /\ reqs[1].kind \in {"role", "adminrole"}
             /\ InFlight(1)
             /\ reqs'[1].pc = "done" ) =>
              LET requesterIsAdmin ==
                      /\ reqs[1].auth0Id \in DOMAIN users
                      /\ users[reqs[1].auth0Id].role = "ADMIN"
              IN
              /\ ~requesterIsAdmin =>
                    /\ reqs'[1].resp.status = "Forbidden"
                    /\ users' = users
              /\ (requesterIsAdmin /\ reqs[1].targetUserId \notin DOMAIN users) =>
                    /\ reqs'[1].resp.status = "NotFound"
                    /\ users' = users
              /\ reqs'[1].resp.status \in {"Forbidden", "NotFound"} =>
                    users' = users
      ]_vars

\* An administrator made the buyer a VENDEUR, and the buyer's own role
\* update was then refused.
C29_Witness ==
    /\ \E k \in {"role", "adminrole"} : IsDone(1, k)
    /\ reqs[1].auth0Id = "buyer"
    /\ reqs[1].resp.status = "Forbidden"
    /\ users["buyer"].role = "VENDEUR"

\* C30: a role update, through either route, whose requester is an ADMIN,
\* whose target is the requester and whose new role is not ADMIN ends
\* BadRequest and leaves the requester an ADMIN.
C30_NoSelfDemotion ==
    [][ \A p \in Procs :
          ( /\ reqs[p].kind \in {"role", "adminrole"}
            /\ InFlight(p)
            /\ reqs'[p].pc = "done"
            /\ reqs[p].targetUserId = reqs[p].auth0Id
            /\ reqs[p].newRole # "ADMIN"
            /\ reqs[p].auth0Id \in DOMAIN users
            /\ users[reqs[p].auth0Id].role = "ADMIN" )
          => /\ reqs'[p].resp.status = "BadRequest"
             /\ users'[reqs[p].auth0Id].role = "ADMIN"
      ]_vars

====
